---- MODULE Spec2Model ----
(***************************************************************************)
(* Model of the saga helpers of the Hathor mobile wallet                   *)
(* (src/src/sagas/helpers.js): the action matcher, dispatchAndWait, the    *)
(* error boundary, the pin-screen bridge, the registered-token listing and *)
(* the network-settings helpers.                                           *)
(*                                                                         *)
(* Every helper has a specification of its own (SpecMatcher, SpecRace,     *)
(* SpecBoundary, SpecModal, SpecTokens, SpecSettings, SpecGate,            *)
(* SpecProbe, and a fair variant where a claim is about progress); the     *)
(* variables of the other helpers stay at their initial value under it.    *)
(***************************************************************************)
EXTENDS Integers, Sequences, FiniteSets, TLC

VARIABLES
  \* specificTypeAndPayload: its arguments, the action tested, the result,
  \* the result before the action was changed
  mt_pc, mt_types, mt_payload, mt_action, mt_result, mt_before,
  \* dispatchAndWait: per invocation its position, arguments, race flag,
  \* returned value and the number of times its caller was resumed; the
  \* channel's takers in registration order; the number of ticks so far.
  \* History: the first outcome action each invocation saw while waiting,
  \* and which of its patterns the actions of the tick it resolved in satisfy
  r_pc, r_args, r_completed, r_result, r_resumed, r_takers, r_ticks, r_first, r_tickBranches,
  \* History: the number of times each invocation put its command, and the
  \* outcome actions the rest of the program has emitted so far
  r_puts, r_emitted,
  \* errorHandler: the handler's position, the supervised saga and its
  \* position, the failure action, the triggering action, the actions put,
  \* the diagnostics logged, the failure actions put by the handler.
  \* History: where the fault came from
  eb_pc, eb_routine, eb_ip, eb_failureAction, eb_action, eb_out, eb_log, eb_puts, eb_fault,
  \* showPinScreenForResult: the flag of the store, per session its position
  \* and the pin its promise resolved with.  History: the calls of each
  \* session's callback, and the log of what the sessions did
  isShowingPinScreen, m_pc, m_pin, m_cbCalls, m_log,
  \* getRegisteredTokens: the records of the registry, the argument, the
  \* position, the records drained, the list built, the list returned
  tk_registry, tk_excludeHTR, tk_pc, tk_idx, tk_tokens, tk_ret,
  \* whether the iterator goes round the registry for ever; which function
  \* was called; for isTokenRegistered the uid asked for and the answer.
  \* History: the calls of iterator.next() not yet answered, and all of them
  tk_endless, tk_caller, tk_uid, tk_found, tk_pending, tk_requests,
  \* getNetworkSettings: the stored item, the state, the result;
  \* disableFeaturesIfNeeded: the settings, the toggles, the result of one
  \* call and of a second call on that result, the toggles object that was
  \* passed as it is after the call
  ns_pc, ns_persisted, ns_state, ns_result, ft_pc, ft_settings, ft_current, ft_once, ft_twice,
  ft_input,
  \* waitForFeatureToggleInitialization, checkForFeatureFlag: the two fields
  \* of the store, the static defaults, the position of the initialization
  \* routine, the number of other actions emitted, per caller its position,
  \* flag and returned value.  History: the number of initialization events
  \* emitted, per caller the readiness it selected, the number of events
  \* emitted when it started and when it was resumed
  state_featureTogglesInitialized, state_featureToggles, g_defaults, g_init, g_other, g_pc,
  g_flag, g_result, g_events, g_sawReady, g_startAt, g_wokeAt,
  \* getFullnodeNetwork, getWalletServiceNetwork: the probe called, its
  \* position, the answer of the version endpoint, what the probe returned or
  \* raised
  pb_probe, pb_pc, pb_answer, pb_outcome

matcherVars == <<mt_pc, mt_types, mt_payload, mt_action, mt_result, mt_before>>
raceVars ==
  <<r_pc, r_args, r_completed, r_result, r_resumed, r_takers, r_ticks, r_first, r_tickBranches,
    r_puts, r_emitted>>
boundaryVars ==
  <<eb_pc, eb_routine, eb_ip, eb_failureAction, eb_action, eb_out, eb_log, eb_puts, eb_fault>>
modalVars == <<isShowingPinScreen, m_pc, m_pin, m_cbCalls, m_log>>
tokensVars ==
  <<tk_registry, tk_excludeHTR, tk_pc, tk_idx, tk_tokens, tk_ret,
    tk_endless, tk_caller, tk_uid, tk_found, tk_pending, tk_requests>>
settingsVars ==
  <<ns_pc, ns_persisted, ns_state, ns_result, ft_pc, ft_settings, ft_current, ft_once, ft_twice,
    ft_input>>
gateVars ==
  <<state_featureTogglesInitialized, state_featureToggles, g_defaults, g_init, g_other, g_pc,
    g_flag, g_result, g_events, g_sawReady, g_startAt, g_wokeAt>>

probeVars == <<pb_probe, pb_pc, pb_answer, pb_outcome>>

vars ==
  <<matcherVars, raceVars, boundaryVars, modalVars, tokensVars, settingsVars, gateVars,
    probeVars>>

\* the variables of the other helpers
notMatcher ==
  <<raceVars, boundaryVars, modalVars, tokensVars, settingsVars, gateVars, probeVars>>
notRace ==
  <<matcherVars, boundaryVars, modalVars, tokensVars, settingsVars, gateVars, probeVars>>
notBoundary ==
  <<matcherVars, raceVars, modalVars, tokensVars, settingsVars, gateVars, probeVars>>
notModal ==
  <<matcherVars, raceVars, boundaryVars, tokensVars, settingsVars, gateVars, probeVars>>
notTokens ==
  <<matcherVars, raceVars, boundaryVars, modalVars, settingsVars, gateVars, probeVars>>
notSettings ==
  <<matcherVars, raceVars, boundaryVars, modalVars, tokensVars, gateVars, probeVars>>
notGate ==
  <<matcherVars, raceVars, boundaryVars, modalVars, tokensVars, settingsVars, probeVars>>
notProbe ==
  <<matcherVars, raceVars, boundaryVars, modalVars, tokensVars, settingsVars, gateVars>>

(***************************************************************************)
(* JavaScript values.  A value is a record of one shape, so that any two   *)
(* values can be compared: undefined, null, a boolean, a number, a string  *)
(* or a reference to an object; two references are equal iff they are the  *)
(* same object (===).                                                      *)
(***************************************************************************)
Undef == [tag |-> "undefined", n |-> 0, s |-> ""]
Null == [tag |-> "null", n |-> 0, s |-> ""]
Num(k) == [tag |-> "number", n |-> k, s |-> ""]
Str(x) == [tag |-> "string", n |-> 0, s |-> x]
Bool(b) == [tag |-> "boolean", n |-> IF b THEN 1 ELSE 0, s |-> ""]
Ref(r) == [tag |-> "object", n |-> r, s |-> ""]

\* A property name is the sequence of its dot-separated segments:
\* <<"payload", "id">> is the name "payload.id".
Key(x) == <<x>>

\* The objects a reference can point to: 1 and 2 have equal contents and are
\* different objects, 3 differs in content.
Heap == <<(Key("id") :> Num(1)), (Key("id") :> Num(1)), (Key("id") :> Num(2))>>

\* object[name] for an own property name, undefined when absent
GetProp(props, key) == IF key \in DOMAIN props THEN props[key] ELSE Undef

\* value[segment]: only objects carry the properties modelled here
PropOf(v, seg) == IF v.tag = "object" THEN GetProp(Heap[v.n], Key(seg)) ELSE Undef

\* lodash baseGet: walk the path while the current value is not null/undefined
RECURSIVE baseGet(_, _)
baseGet(v, path) ==
  IF path = <<>> THEN v
  ELSE IF v.tag \in {"undefined", "null"} THEN Undef
  ELSE baseGet(PropOf(v, Head(path)), Tail(path))

\* lodash get(object, path): a path that is a plain name, or that names a
\* property of the object itself, is read directly; any other is walked
\* segment by segment.  A missing path gives undefined.
get(props, key) ==
  IF Len(key) = 1 \/ key \in DOMAIN props THEN GetProp(props, key)
  ELSE baseGet(GetProp(props, Key(Head(key))), Tail(key))

\* Array.prototype.indexOf, 0-based, -1 when absent (strict equality)
RECURSIVE indexOfFrom(_, _, _)
indexOfFrom(arr, v, i) ==
  IF i > Len(arr) THEN -1
  ELSE IF arr[i] = v THEN i - 1
  ELSE indexOfFrom(arr, v, i + 1)

indexOf(arr, v) == indexOfFrom(arr, v, 1)

\* helpers.js 72-79: the loop over Object.keys(payload); false at the first
\* key whose value on the action differs from the expected one
RECURSIVE allKeysMatch(_, _, _)
allKeysMatch(keys, payload, action) ==
  IF keys = {} THEN TRUE
  ELSE LET key == CHOOSE k \in keys : TRUE
           actionKey == get(action, key)
           payloadKey == get(payload, key)
       IN IF actionKey # payloadKey THEN FALSE
          ELSE allKeysMatch(keys \ {key}, payload, action)

\* Mutant: the payload is not compared at all.
specificTypeAndPayload_typeOnly(types, payload, action) ==
  LET actionTypes == IF ~types.isArray THEN <<types.items[1]>> ELSE types.items
  IN indexOf(actionTypes, get(action, Key("type"))) # -1

\* helpers.js 59-82: specificTypeAndPayload(_types, payload)(action).
\* _types is [isArray, items]: a single type is carried as items[1].
specificTypeAndPayload(types, payload, action) ==
  LET actionTypes == IF ~types.isArray THEN <<types.items[1]>> ELSE types.items
  IN IF indexOf(actionTypes, get(action, Key("type"))) = -1 THEN FALSE
     ELSE allKeysMatch(DOMAIN payload, payload, action)

(***************************************************************************)
(* SpecMatcher: a predicate is built from any types and payload of the     *)
(* sets below, applied to any action, and applied again after one property *)
(* of the action that the payload does not name has been changed.          *)
(***************************************************************************)
KindA == "SEND_TX"
KindB == "SEND_TX_SUCCESS"
KindC == "SEND_TX_FAILED"

\* all maps from a subset of keys to the values
MapsOver(keys, vals) == UNION {[K -> vals] : K \in SUBSET keys}

MtFieldKeys == {Key("tokenId"), <<"payload", "id">>, Key("payload")}
MtFieldVals == {Undef, Num(1), Ref(1)}
MtPayloads == MapsOver(MtFieldKeys, MtFieldVals)

MtTypes ==
  {[isArray |-> FALSE, items |-> <<Str(k)>>] : k \in {KindA, KindB}}
  \cup {[isArray |-> TRUE, items |-> q] :
          q \in {<<>>, <<Str(KindA)>>, <<Str(KindA), Str(KindB)>>, <<Str(KindC), Str(KindB)>>}}

MtActionKeys == {Key("type"), Key("tokenId"), Key("payload"), <<"payload", "id">>}

MtAllowed(k) ==
  IF k = Key("type") THEN {Str(KindA), Str(KindB)}
  ELSE IF k = Key("tokenId") THEN {Num(1), Num(2)}
  ELSE IF k = Key("payload") THEN {Ref(1), Ref(2), Ref(3)}
  ELSE {Num(1)}

MtActionVals == UNION {MtAllowed(k) : k \in MtActionKeys}

MtActions ==
  {a \in MapsOver(MtActionKeys, MtActionVals) : \A k \in DOMAIN a : a[k] \in MtAllowed(k)}

\* A property of the action that no key of the payload reads: not the type,
\* not a key of the payload, not the first segment of one.
Unrelated(k, payload) ==
  /\ k # Key("type")
  /\ \A f \in DOMAIN payload : k # f /\ k # Key(Head(f))

MatcherInit ==
  /\ mt_pc = "built"
  /\ mt_types \in MtTypes
  /\ mt_payload \in MtPayloads
  /\ mt_action \in MtActions
  /\ mt_result = FALSE
  /\ mt_before = FALSE

\* the predicate is called on the action
MatcherApply ==
  /\ mt_pc = "built"
  /\ mt_result' = specificTypeAndPayload(mt_types, mt_payload, mt_action)
  /\ mt_before' = mt_result'
  /\ mt_pc' = "applied"
  /\ UNCHANGED <<mt_types, mt_payload, mt_action, notMatcher>>

\* a property the payload does not name is set, or deleted, and the predicate
\* is called on the changed action
MatcherChangeUnrelated ==
  /\ mt_pc = "applied"
  /\ \E k \in MtActionKeys :
       /\ Unrelated(k, mt_payload)
       /\ \E a \in MtActions :
            /\ a # mt_action
            /\ \A j \in MtActionKeys \ {k} :
                 (j \in DOMAIN a <=> j \in DOMAIN mt_action)
                 /\ (j \in DOMAIN a => a[j] = mt_action[j])
            /\ mt_action' = a
            /\ mt_result' = specificTypeAndPayload(mt_types, mt_payload, a)
  /\ mt_before' = mt_result
  /\ mt_pc' = "changed"
  /\ UNCHANGED <<mt_types, mt_payload, notMatcher>>

MatcherIdle ==
  /\ mt_pc = "off"
  /\ mt_types = [isArray |-> TRUE, items |-> <<>>]
  /\ mt_payload = <<>>
  /\ mt_action = <<>>
  /\ mt_result = FALSE
  /\ mt_before = FALSE

MatcherNext == MatcherApply \/ MatcherChangeUnrelated

(***************************************************************************)
(* dispatchAndWait (helpers.js 91-98) on the saga channel.                 *)
(*                                                                         *)
(* The channel keeps its takers in registration order.  An emitted action  *)
(* is offered to the takers registered when it is emitted, in that order;  *)
(* a taker whose pattern accepts it is removed and called.  A race hands   *)
(* the first of its takers to be called to the waiting saga, under that    *)
(* taker's key, and removes its other takers.                              *)
(***************************************************************************)
Inv == {1, 2}

\* the keys of the race effect, in the order of the object literal
RaceKeys == <<"success", "falure">>

EmptyProps == [k \in {} |-> Undef]

\* an action {type, tokenId}
Action(kind, tok) == (Key("type") :> Str(kind)) @@ (Key("tokenId") :> Num(tok))

TokenIds == {1, 2}
\* the outcome actions the rest of the program emits
RaceEvents == {Action(k, t) : k \in {KindB, KindC}, t \in TokenIds}

\* a take pattern: an action type, or a predicate of specificTypeAndPayload
TypePattern(kind) ==
  [isFn |-> FALSE, kind |-> kind, types |-> [isArray |-> FALSE, items |-> <<Str(kind)>>],
   payload |-> EmptyProps]
FnPattern(types, payload) ==
  [isFn |-> TRUE, kind |-> "", types |-> types, payload |-> payload]

\* the matcher of take(pattern): a string pattern accepts the actions of that
\* type, a function pattern the actions it returns true for
patternMatches(pat, action) ==
  IF pat.isFn THEN specificTypeAndPayload(pat.types, pat.payload, action)
  ELSE get(action, Key("type")) = Str(pat.kind)

\* The arguments a caller passes: the command of a token, awaited by action
\* type, by type and token, or by two predicates that both accept the failure.
RaceArgs(tok, style) ==
  LET byTok == (Key("tokenId") :> Num(tok))
      one(k) == [isArray |-> FALSE, items |-> <<Str(k)>>]
  IN [action |-> Action(KindA, tok),
      successAction |->
        IF style = "type" THEN TypePattern(KindB)
        ELSE IF style = "payload" THEN FnPattern(one(KindB), byTok)
        ELSE FnPattern([isArray |-> TRUE, items |-> <<Str(KindB), Str(KindC)>>], byTok),
      failureAction |->
        IF style = "type" THEN TypePattern(KindC)
        ELSE FnPattern(one(KindC), byTok)]

RaceStyles == {"type", "payload", "overlap"}
NoArgs == RaceArgs(1, "type")

\* the pattern behind a key of the race
patternOf(args, key) ==
  IF key = "success" THEN args.successAction ELSE args.failureAction

\* remove the takers of invocation i from the channel
RECURSIVE withoutTakersOf(_, _)
withoutTakersOf(takers, i) ==
  IF takers = <<>> THEN <<>>
  ELSE IF Head(takers).inv = i THEN withoutTakersOf(Tail(takers), i)
  ELSE <<Head(takers)>> \o withoutTakersOf(Tail(takers), i)

RECURSIVE withoutTaker(_, _)
withoutTaker(takers, t) ==
  IF takers = <<>> THEN <<>>
  ELSE IF Head(takers) = t THEN Tail(takers)
  ELSE <<Head(takers)>> \o withoutTaker(Tail(takers), t)

\* Mutant: the race neither checks that it has completed nor removes its
\* other takers.
raceCallback_noTeardown(st, i, key, e) ==
  [st EXCEPT !.result[i] = (key :> e),
             !.resumed[i] = @ + 1,
             !.pc[i] = "resolved"]

\* helpers.js 94-97: a taker of the race of invocation i was called with e.
\* The first call completes the race: the other takers are removed, the
\* response holds e under the key of the taker, the saga is resumed with it.
raceCallback(st, i, key, e) ==
  IF st.completed[i] THEN st
  ELSE [st EXCEPT !.completed[i] = TRUE,
                  !.takers = withoutTakersOf(@, i),
                  !.result[i] = (key :> e),
                  !.resumed[i] = @ + 1,
                  !.pc[i] = "resolved"]

\* the channel offers e to the takers of the snapshot, from the k-th on
RECURSIVE offer(_, _, _, _)
offer(st, snapshot, k, e) ==
  IF k > Len(snapshot) THEN st
  ELSE LET t == snapshot[k]
       IN IF patternMatches(patternOf(st.args[t.inv], t.key), e)
          THEN offer(raceCallback([st EXCEPT !.takers = withoutTaker(@, t)], t.inv, t.key, e),
                     snapshot, k + 1, e)
          ELSE offer(st, snapshot, k + 1, e)

\* history: the first action that a waiting invocation's success or failure
\* pattern accepts, and which of the two accept it
noteFirst(st, e) ==
  [st EXCEPT !.first = [i \in Inv |->
     LET s == patternMatches(st.args[i].successAction, e)
         f == patternMatches(st.args[i].failureAction, e)
     IN IF st.pc[i] = "waiting" /\ ~st.first[i].seen /\ (s \/ f)
        THEN [seen |-> TRUE, ev |-> e, success |-> s, failure |-> f]
        ELSE st.first[i]]]

\* Mutant: the channel hands an action to the first taker that accepts it and
\* to no other.
emit_singleConsumer(st, e) ==
  LET accepting == {k \in 1..Len(st.takers) :
                      patternMatches(patternOf(st.args[st.takers[k].inv], st.takers[k].key), e)}
      first == CHOOSE k \in accepting : \A m \in accepting : k <= m
  IN IF accepting = {} THEN noteFirst(st, e)
     ELSE offer(noteFirst(st, e), SubSeq(st.takers, 1, first), 1, e)

\* put(action) on the channel
emit(st, e) == offer(noteFirst(st, e), st.takers, 1, e)

\* the actions of one tick are emitted one after the other
RECURSIVE emitAll(_, _)
emitAll(st, evs) ==
  IF evs = <<>> THEN st ELSE emitAll(emit(st, Head(evs)), Tail(evs))

\* helpers.js 92: yield put(action), by invocation i
putCommand(st, i, action) == [emit(st, action) EXCEPT !.puts[i] = @ + 1]

\* Mutant: the command is put again before the race.
dispatchAndWait_putTwice(st, i, args) ==
  LET put == putCommand(putCommand([st EXCEPT !.args[i] = args], i, args.action),
                        i, args.action)
  IN [put EXCEPT !.takers = @ \o [k \in 1..Len(RaceKeys) |-> [inv |-> i, key |-> RaceKeys[k]]],
                 !.completed[i] = FALSE,
                 !.pc[i] = "waiting"]

\* helpers.js 91-98: dispatchAndWait(action, successAction, failureAction) up
\* to its suspension: the command is put, then the race registers one taker
\* per key, in the order of the keys.
dispatchAndWait(st, i, args) ==
  LET put == putCommand([st EXCEPT !.args[i] = args], i, args.action)
  IN [put EXCEPT !.takers = @ \o [k \in 1..Len(RaceKeys) |-> [inv |-> i, key |-> RaceKeys[k]]],
                 !.completed[i] = FALSE,
                 !.pc[i] = "waiting"]

\* history: the patterns of a caller that some action of a tick satisfies
branchesIn(args, evs) ==
  {b \in {"success", "failure"} :
     \E k \in 1..Len(evs) :
       patternMatches(IF b = "success" THEN args.successAction ELSE args.failureAction, evs[k])}

MaxTicks == 2
MaxBurst == 2

Bursts == UNION {[1..n -> RaceEvents] : n \in 1..MaxBurst}

NoFirst == [seen |-> FALSE, ev |-> EmptyProps, success |-> FALSE, failure |-> FALSE]
NoResult == [k \in {} |-> EmptyProps]

raceState ==
  [pc |-> r_pc, args |-> r_args, completed |-> r_completed, result |-> r_result,
   resumed |-> r_resumed, takers |-> r_takers, first |-> r_first, puts |-> r_puts]

raceSet(st) ==
  /\ r_pc' = st.pc
  /\ r_args' = st.args
  /\ r_completed' = st.completed
  /\ r_result' = st.result
  /\ r_resumed' = st.resumed
  /\ r_takers' = st.takers
  /\ r_first' = st.first
  /\ r_puts' = st.puts

RaceIdle ==
  /\ r_pc = [i \in Inv |-> "idle"]
  /\ r_args = [i \in Inv |-> NoArgs]
  /\ r_completed = [i \in Inv |-> FALSE]
  /\ r_result = [i \in Inv |-> NoResult]
  /\ r_resumed = [i \in Inv |-> 0]
  /\ r_takers = <<>>
  /\ r_ticks = 0
  /\ r_first = [i \in Inv |-> NoFirst]
  /\ r_tickBranches = [i \in Inv |-> {}]
  /\ r_puts = [i \in Inv |-> 0]
  /\ r_emitted = {}

\* a saga calls dispatchAndWait
RaceDispatch ==
  \E i \in Inv, tok \in TokenIds, style \in RaceStyles :
    /\ r_pc[i] = "idle"
    /\ raceSet(dispatchAndWait(raceState, i, RaceArgs(tok, style)))
    /\ UNCHANGED <<r_ticks, r_tickBranches, r_emitted, notRace>>

\* the rest of the program emits one or more actions in one tick
RaceEmitTick ==
  \E evs \in Bursts :
    /\ r_ticks < MaxTicks
    /\ r_ticks' = r_ticks + 1
    /\ r_tickBranches' = [i \in Inv |->
         IF r_pc[i] = "waiting" /\ emitAll(raceState, evs).pc[i] = "resolved"
         THEN branchesIn(r_args[i], evs) ELSE r_tickBranches[i]]
    /\ raceSet(emitAll(raceState, evs))
    /\ r_emitted' = r_emitted \cup {evs[k] : k \in 1..Len(evs)}
    /\ UNCHANGED notRace

RaceNext == RaceDispatch \/ RaceEmitTick

(***************************************************************************)
(* errorHandler (helpers.js 107-116).                                      *)
(*                                                                         *)
(* The supervised saga is a list of steps, each a put of an action of its  *)
(* own or a suspension, and an end: it returns or it throws.  A suspension *)
(* is resumed normally or with a fault, which the saga does not catch.     *)
(* The catch block of the handler is three steps: the diagnostic, the put  *)
(* of the failure action by the runtime, the end of the handler; other     *)
(* sagas may run between them.                                             *)
(***************************************************************************)
MaxSteps == 2

Routines ==
  [steps : UNION {[1..n -> {"put", "suspend"}] : n \in 0..MaxSteps},
   end : {"return", "throw"}]

\* the action the supervised saga puts on its own
RoutineAction == Action(KindB, 1)

FailureActions == {Action(KindC, t) : t \in TokenIds}

\* the actions handleAction is called with; one carries no type
TriggerActions == {Action(KindA, t) : t \in TokenIds} \cup {(Key("tokenId") :> Num(1))}

\* `${action.type}` of the diagnostic
typeText(action) ==
  LET v == get(action, Key("type")) IN IF v.tag = "string" THEN v.s ELSE "undefined"

\* Mutant: the catch block logs and throws the fault again.
handleAction_catch_rethrow(st) ==
  [st EXCEPT !.log = Append(@, typeText(st.action)),
             !.pc = "escaped"]

\* helpers.js 111-113: the catch block up to its yield: the diagnostic is
\* logged and the handler hands put(failureAction) to the runtime; it is
\* suspended there until the runtime has carried the put out
handleAction_catch(st) ==
  [st EXCEPT !.log = Append(@, typeText(st.action)),
             !.pc = "catching"]

\* helpers.js 113: the runtime carries out put(failureAction)
handleAction_put(st) ==
  [st EXCEPT !.out = Append(@, st.failureAction),
             !.puts = @ + 1,
             !.pc = "resuming"]

\* helpers.js 113-115: the handler is resumed after the put and ends normally
handleAction_end(st) == [st EXCEPT !.pc = "done"]

\* Mutant: the failure action is put in a finally block, on every exit.
handleAction_return_finally(st) ==
  [st EXCEPT !.out = Append(@, st.failureAction),
             !.puts = @ + 1,
             !.pc = "done"]

\* helpers.js 109-110: call(saga, action) returned: the handler ends
handleAction_return(st) == [st EXCEPT !.pc = "done"]

ebState ==
  [pc |-> eb_pc, action |-> eb_action, failureAction |-> eb_failureAction,
   out |-> eb_out, log |-> eb_log, puts |-> eb_puts]

ebSet(st) ==
  /\ eb_pc' = st.pc
  /\ eb_out' = st.out
  /\ eb_log' = st.log
  /\ eb_puts' = st.puts

\* errorHandler(saga, failureAction) has returned handleAction
BoundaryInit ==
  /\ eb_pc = "idle"
  /\ eb_routine \in Routines
  /\ eb_failureAction \in FailureActions
  /\ eb_action = EmptyProps
  /\ eb_ip = 0
  /\ eb_out = <<>>
  /\ eb_log = <<>>
  /\ eb_puts = 0
  /\ eb_fault = "none"

BoundaryIdle ==
  /\ eb_pc = "off"
  /\ eb_routine = [steps |-> <<>>, end |-> "return"]
  /\ eb_failureAction = EmptyProps
  /\ eb_action = EmptyProps
  /\ eb_ip = 0
  /\ eb_out = <<>>
  /\ eb_log = <<>>
  /\ eb_puts = 0
  /\ eb_fault = "none"

\* handleAction(action) is called: call(saga, action) starts the saga
BoundaryHandle ==
  \E a \in TriggerActions :
    /\ eb_pc = "idle"
    /\ eb_pc' = "running"
    /\ eb_action' = a
    /\ eb_ip' = 1
    /\ UNCHANGED <<eb_routine, eb_failureAction, eb_out, eb_log, eb_puts, eb_fault, notBoundary>>

\* the saga puts an action of its own
BoundaryRoutinePut ==
  /\ eb_pc = "running"
  /\ eb_ip <= Len(eb_routine.steps)
  /\ eb_routine.steps[eb_ip] = "put"
  /\ eb_out' = Append(eb_out, RoutineAction)
  /\ eb_ip' = eb_ip + 1
  /\ UNCHANGED <<eb_pc, eb_routine, eb_failureAction, eb_action, eb_log, eb_puts, eb_fault, notBoundary>>

\* the saga suspends on a nested effect
BoundaryRoutineSuspend ==
  /\ eb_pc = "running"
  /\ eb_ip <= Len(eb_routine.steps)
  /\ eb_routine.steps[eb_ip] = "suspend"
  /\ eb_pc' = "suspended"
  /\ UNCHANGED <<eb_ip, eb_routine, eb_failureAction, eb_action, eb_out, eb_log, eb_puts, eb_fault, notBoundary>>

\* the nested effect completes and the saga goes on
BoundaryResume ==
  /\ eb_pc = "suspended"
  /\ eb_pc' = "running"
  /\ eb_ip' = eb_ip + 1
  /\ UNCHANGED <<eb_routine, eb_failureAction, eb_action, eb_out, eb_log, eb_puts, eb_fault, notBoundary>>

\* the nested effect fails: the fault is thrown into the saga, which does not
\* catch it, and reaches the catch block of the handler
BoundaryResumeFault ==
  /\ eb_pc = "suspended"
  /\ eb_fault' = "nested"
  /\ ebSet(handleAction_catch(ebState))
  /\ UNCHANGED <<eb_ip, eb_routine, eb_failureAction, eb_action, notBoundary>>

\* the saga throws: the fault reaches the catch block of the handler
BoundaryRoutineThrow ==
  /\ eb_pc = "running"
  /\ eb_ip > Len(eb_routine.steps)
  /\ eb_routine.end = "throw"
  /\ eb_fault' = "direct"
  /\ ebSet(handleAction_catch(ebState))
  /\ UNCHANGED <<eb_ip, eb_routine, eb_failureAction, eb_action, notBoundary>>

\* the runtime carries out the put of the failure action; what the scheduler
\* had queued before it has run in between
BoundaryPutFailure ==
  /\ eb_pc = "catching"
  /\ ebSet(handleAction_put(ebState))
  /\ UNCHANGED <<eb_ip, eb_routine, eb_failureAction, eb_action, eb_fault, notBoundary>>

\* the handler is resumed after its put and ends
BoundaryEnd ==
  /\ eb_pc = "resuming"
  /\ ebSet(handleAction_end(ebState))
  /\ UNCHANGED <<eb_ip, eb_routine, eb_failureAction, eb_action, eb_fault, notBoundary>>

\* the saga returns
BoundaryRoutineReturn ==
  /\ eb_pc = "running"
  /\ eb_ip > Len(eb_routine.steps)
  /\ eb_routine.end = "return"
  /\ ebSet(handleAction_return(ebState))
  /\ UNCHANGED <<eb_ip, eb_routine, eb_failureAction, eb_action, eb_fault, notBoundary>>

BoundaryNext ==
  \/ BoundaryHandle
  \/ BoundaryRoutinePut
  \/ BoundaryRoutineSuspend
  \/ BoundaryResume
  \/ BoundaryResumeFault
  \/ BoundaryRoutineThrow
  \/ BoundaryPutFailure
  \/ BoundaryEnd
  \/ BoundaryRoutineReturn

(***************************************************************************)
(* showPinScreenForResult (helpers.js 125-140).                            *)
(*                                                                         *)
(* A session is one call.  The pin screen holds the callback of the        *)
(* sessions it was presented for and may call it whenever it likes, more   *)
(* than once too, and already while it is being presented.  m_log records, *)
(* in order, what each session did: the                                    *)
(* presentation ("present"), the writes of the flag ("true", "false") and  *)
(* the settling of its promise ("resolve").                                *)
(***************************************************************************)
Sessions == {1, 2}
Pins == {"123456", "654321"}
MaxCb == 2

Entry(s, op) == [sess |-> s, op |-> op]

\* resolve(_pin): settles the promise the first time it is called
promiseResolve(st, s, pin) ==
  IF st.pc[s] = "pending"
  THEN [st EXCEPT !.pc[s] = "resolved", !.pin[s] = pin, !.log = Append(@, Entry(s, "resolve"))]
  ELSE st

\* dispatch(setIsShowingPinScreen(value))
setIsShowingPinScreen(st, s, value) ==
  [st EXCEPT !.flag = value,
             !.log = Append(@, Entry(s, IF value THEN "true" ELSE "false"))]

\* Mutant: the callback resolves the promise and then clears the flag.
showPinScreenForResult_cb_resolveFirst(st, s, pin) ==
  setIsShowingPinScreen(promiseResolve(st, s, pin), s, FALSE)

\* helpers.js 127-130: the callback of the session
showPinScreenForResult_cb(st, s, pin) ==
  promiseResolve(setIsShowingPinScreen(st, s, FALSE), s, pin)

\* helpers.js 136: NavigationService.navigate('PinScreen', params); the pin
\* screen may call params.cb before navigate returns (sync)
navigate(st, s, sync, pin) ==
  LET presented == [st EXCEPT !.pc[s] = "pending", !.log = Append(@, Entry(s, "present"))]
  IN IF sync THEN showPinScreenForResult_cb(presented, s, pin) ELSE presented

\* helpers.js 125-140: the promise executor: the pin screen is presented with
\* the parameters, then the flag is set
showPinScreenForResult(st, s, sync, pin) ==
  setIsShowingPinScreen(navigate(st, s, sync, pin), s, TRUE)

modalState == [pc |-> m_pc, pin |-> m_pin, flag |-> isShowingPinScreen, log |-> m_log]

modalSet(st) ==
  /\ m_pc' = st.pc
  /\ m_pin' = st.pin
  /\ isShowingPinScreen' = st.flag
  /\ m_log' = st.log

ModalIdle ==
  /\ m_pc = [s \in Sessions |-> "idle"]
  /\ m_pin = [s \in Sessions |-> ""]
  /\ m_cbCalls = [s \in Sessions |-> 0]
  /\ isShowingPinScreen = FALSE
  /\ m_log = <<>>

\* a saga calls showPinScreenForResult(dispatch)
ModalShow ==
  \E s \in Sessions, sync \in BOOLEAN, pin \in Pins :
    /\ m_pc[s] = "idle"
    /\ modalSet(showPinScreenForResult(modalState, s, sync, pin))
    /\ m_cbCalls' = [m_cbCalls EXCEPT ![s] = IF sync THEN @ + 1 ELSE @]
    /\ UNCHANGED notModal

\* the pin screen calls the callback of a session it was presented for
ModalCallback ==
  \E s \in Sessions, pin \in Pins :
    /\ m_pc[s] # "idle"
    /\ m_cbCalls[s] < MaxCb
    /\ m_cbCalls' = [m_cbCalls EXCEPT ![s] = @ + 1]
    /\ modalSet(showPinScreenForResult_cb(modalState, s, pin))
    /\ UNCHANGED notModal

ModalNext == ModalShow \/ ModalCallback

\* the number of entries of session s with operation op in a log
RECURSIVE countOps(_, _, _)
countOps(log, s, op) ==
  IF log = <<>> THEN 0
  ELSE (IF Head(log) = Entry(s, op) THEN 1 ELSE 0) + countOps(Tail(log), s, op)

\* the position of the first entry of session s with operation op, 0 if none
RECURSIVE firstOp(_, _, _, _)
firstOp(log, s, op, i) ==
  IF i > Len(log) THEN 0
  ELSE IF log[i] = Entry(s, op) THEN i
  ELSE firstOp(log, s, op, i + 1)

\* the position of the last write of the flag by session s, 0 if none
RECURSIVE lastWrite(_, _, _)
lastWrite(log, s, i) ==
  IF i = 0 THEN 0
  ELSE IF log[i] \in {Entry(s, "true"), Entry(s, "false")} THEN i
  ELSE lastWrite(log, s, i - 1)

\* the part of the log before the promise of session s settled
beforeResolve(log, s) ==
  LET r == firstOp(log, s, "resolve", 1) IN IF r = 0 THEN log ELSE SubSeq(log, 1, r - 1)

(***************************************************************************)
(* getRegisteredTokens (helpers.js 158-186).                               *)
(*                                                                         *)
(* The registry is the sequence of records the iterator of                 *)
(* wallet.storage.getRegisteredTokens() yields; a record of the storage    *)
(* carries more than the three fields the helper copies.                   *)
(***************************************************************************)
\* hathorLib.constants.HATHOR_TOKEN_CONFIG.uid
htrUid == "00"

StoredToken(uid, symbol, name) == [uid |-> uid, symbol |-> symbol, name |-> name, version |-> 1]
TokenRecord(uid, symbol, name) == [uid |-> uid, symbol |-> symbol, name |-> name]

\* The records a registry is made of: the native token, a custom token, a
\* custom token that took the native symbol, a record with the native uid and
\* other labels.
RegistryPool ==
  {StoredToken(htrUid, "HTR", "Hathor"), StoredToken("tokA", "TKA", "Token A"),
   StoredToken("tokB", "HTR", "Hathor"), StoredToken(htrUid, "OLD", "Old name")}

\* the default tokens of the wallet, in their declared order
INITIAL_TOKENS == <<TokenRecord(htrUid, "HTR", "Hathor"), TokenRecord("tokD", "DEF", "Default")>>

MaxRegistry == 3
Registries == UNION {[1..n -> RegistryPool] : n \in 0..MaxRegistry}

\* Mutant: the native token is recognised by its symbol.
pushToken_bySymbol(tokens, token, excludeHTR) ==
  IF (~excludeHTR) \/ token.symbol # "HTR"
  THEN Append(tokens, TokenRecord(token.uid, token.symbol, token.name))
  ELSE tokens

\* helpers.js 168-175: the body of the loop for one yielded record
pushToken(tokens, token, excludeHTR) ==
  IF (~excludeHTR) \/ token.uid # htrUid
  THEN Append(tokens, TokenRecord(token.uid, token.symbol, token.name))
  ELSE tokens

\* Mutant: the default tokens are pushed at the end.
withDefaults_atEnd(tokens, excludeHTR) ==
  IF ~excludeHTR THEN tokens \o INITIAL_TOKENS ELSE tokens

\* helpers.js 181-185: tokens.unshift(...INITIAL_TOKENS) unless excludeHTR
withDefaults(tokens, excludeHTR) ==
  IF ~excludeHTR THEN INITIAL_TOKENS \o tokens ELSE tokens

\* the uids isTokenRegistered is asked about
QueryUids == {htrUid, "tokA", "tokB", "tokD", "none"}

\* Mutant: isTokenRegistered lists the tokens without the defaults.
excludeHTR_default_true == TRUE

\* helpers.js 158: excludeHTR = false, the value isTokenRegistered gets by
\* calling getRegisteredTokens(wallet) (line 195)
excludeHTR_default == FALSE

\* helpers.js 196: tokens.some((token) => token.uid === tokenUid)
tokensSome(tokens, tokenUid) == \E k \in 1..Len(tokens) : tokens[k].uid = tokenUid

\* Mutant: two records are asked for at a time.
requestNext_prefetch(pending) == pending + 2

\* helpers.js 166, 177: iterator.next() is called: one more request is open
requestNext(pending) == pending + 1

\* helpers.js 166, 177: await: the request is answered
answered(pending) == pending - 1

\* the record the iterator yields after idx records: an endless iterator
\* starts again at the first record
recordAt(registry, idx) == registry[(idx % Len(registry)) + 1]

\* the records an endless iterator is followed for
MaxDrain == 4

TokensInit ==
  /\ tk_pc = "idle"
  /\ tk_registry \in Registries
  /\ tk_endless \in (IF tk_registry = <<>> THEN {FALSE} ELSE BOOLEAN)
  /\ tk_caller \in {"getRegisteredTokens", "isTokenRegistered"}
  /\ tk_excludeHTR \in (IF tk_caller = "isTokenRegistered" THEN {excludeHTR_default}
                        ELSE BOOLEAN)
  /\ tk_uid \in (IF tk_caller = "isTokenRegistered" THEN QueryUids ELSE {"none"})
  /\ tk_found = FALSE
  /\ tk_idx = 0
  /\ tk_tokens = <<>>
  /\ tk_ret = <<>>
  /\ tk_pending = 0
  /\ tk_requests = 0

TokensIdle ==
  /\ tk_pc = "off"
  /\ tk_registry = <<>>
  /\ tk_endless = FALSE
  /\ tk_caller = "getRegisteredTokens"
  /\ tk_excludeHTR = FALSE
  /\ tk_uid = "none"
  /\ tk_found = FALSE
  /\ tk_idx = 0
  /\ tk_tokens = <<>>
  /\ tk_ret = <<>>
  /\ tk_pending = 0
  /\ tk_requests = 0

\* helpers.js 159-166: the iterator is created and its first record asked for
TokensStart ==
  /\ tk_pc = "idle"
  /\ tk_pc' = "awaiting"
  /\ tk_tokens' = <<>>
  /\ tk_pending' = requestNext(tk_pending)
  /\ tk_requests' = tk_requests + (tk_pending' - tk_pending)
  /\ UNCHANGED <<tk_registry, tk_excludeHTR, tk_idx, tk_ret, tk_endless, tk_caller, tk_uid,
                 tk_found, notTokens>>

\* helpers.js 167-178: the iterator answers with a record: the body of the
\* loop runs and the next record is asked for
TokensYield ==
  /\ tk_pc = "awaiting"
  /\ IF tk_endless THEN tk_idx < MaxDrain ELSE tk_idx < Len(tk_registry)
  /\ tk_tokens' = pushToken(tk_tokens, recordAt(tk_registry, tk_idx), tk_excludeHTR)
  /\ tk_idx' = tk_idx + 1
  /\ tk_pending' = requestNext(answered(tk_pending))
  /\ tk_requests' = tk_requests + (tk_pending' - answered(tk_pending))
  /\ UNCHANGED <<tk_pc, tk_registry, tk_excludeHTR, tk_ret, tk_endless, tk_caller, tk_uid,
                 tk_found, notTokens>>

\* helpers.js 167, 180-185: the iterator answers done: the loop ends and the
\* list is returned
TokensDone ==
  /\ tk_pc = "awaiting"
  /\ ~tk_endless
  /\ tk_idx = Len(tk_registry)
  /\ tk_pending' = answered(tk_pending)
  /\ tk_ret' = withDefaults(tk_tokens, tk_excludeHTR)
  /\ tk_tokens' = tk_ret'
  /\ tk_pc' = "done"
  /\ UNCHANGED <<tk_registry, tk_excludeHTR, tk_idx, tk_endless, tk_caller, tk_uid, tk_found,
                 tk_requests, notTokens>>

\* helpers.js 194-197: isTokenRegistered looks for the uid in the list
TokensSome ==
  /\ tk_pc = "done"
  /\ tk_caller = "isTokenRegistered"
  /\ tk_found' = tokensSome(tk_ret, tk_uid)
  /\ tk_pc' = "answered"
  /\ UNCHANGED <<tk_registry, tk_excludeHTR, tk_idx, tk_tokens, tk_ret, tk_endless, tk_caller,
                 tk_uid, tk_pending, tk_requests, notTokens>>

TokensNext == TokensStart \/ TokensYield \/ TokensDone \/ TokensSome

\* the three copied fields of each record
project(records) ==
  [i \in 1..Len(records) |-> TokenRecord(records[i].uid, records[i].symbol, records[i].name)]

isNotNative(token) == token.uid # htrUid

(***************************************************************************)
(* getNetworkSettings, isWalletServiceUnavailable, disableFeaturesIfNeeded *)
(* (helpers.js 235-266).                                                   *)
(***************************************************************************)
\* the names of the two toggles
WALLET_SERVICE_FEATURE_TOGGLE == "walletService"
PUSH_NOTIFICATION_FEATURE_TOGGLE == "pushNotification"

\* The settings objects: 1 is {}, the others differ in walletServiceUrl
\* (null, a url, the empty string).
SettingsObjects ==
  <<EmptyProps,
    (Key("walletServiceUrl") :> Null),
    (Key("walletServiceUrl") :> Str("https://wallet-service")),
    (Key("walletServiceUrl") :> Str(""))>>

SettingsRefs == {Ref(r) : r \in 1..Len(SettingsObjects)}

\* what STORE.getItem can give: nothing, a falsy value, a settings object
PersistedValues == {Null, Undef, Bool(FALSE), Num(0), Str("")} \cup SettingsRefs

ToggleNames == {WALLET_SERVICE_FEATURE_TOGGLE, PUSH_NOTIFICATION_FEATURE_TOGGLE, "other"}
ToggleSets == UNION {[K -> BOOLEAN] : K \in SUBSET ToggleNames}

\* JavaScript truthiness
truthy(v) ==
  /\ v.tag \notin {"undefined", "null"}
  /\ ~(v.tag = "boolean" /\ v.n = 0)
  /\ ~(v.tag = "number" /\ v.n = 0)
  /\ ~(v.tag = "string" /\ v.s = "")

\* Mutant: a || b in place of a ?? b.
getNetworkSettings_or(persisted, state) ==
  IF truthy(persisted) THEN persisted ELSE state.networkSettings

\* helpers.js 262-266: STORE.getItem(...) ?? state.networkSettings
getNetworkSettings(persisted, state) ==
  IF persisted.tag \notin {"undefined", "null"} THEN persisted ELSE state.networkSettings

\* helpers.js 235-237: customNetworkSettings.walletServiceUrl == null
isWalletServiceUnavailable(customNetworkSettings) ==
  get(customNetworkSettings, Key("walletServiceUrl")).tag \in {"undefined", "null"}

\* { ...toggles, [name]: value }
withToggle(toggles, name, value) ==
  [k \in DOMAIN toggles \cup {name} |-> IF k = name THEN value ELSE toggles[k]]

\* Mutant: the push-notification toggle is left as it is.
disableFeaturesIfNeeded_walletServiceOnly(customNetworkSettings, currentFeatureToggles) ==
  IF isWalletServiceUnavailable(customNetworkSettings)
  THEN withToggle(currentFeatureToggles, WALLET_SERVICE_FEATURE_TOGGLE, FALSE)
  ELSE currentFeatureToggles

\* Mutant: the two toggles are switched instead of being switched off.
disableFeaturesIfNeeded_flip(customNetworkSettings, currentFeatureToggles) ==
  LET on(name) == name \in DOMAIN currentFeatureToggles /\ currentFeatureToggles[name]
  IN IF isWalletServiceUnavailable(customNetworkSettings)
     THEN withToggle(withToggle(currentFeatureToggles,
                                WALLET_SERVICE_FEATURE_TOGGLE, ~on(WALLET_SERVICE_FEATURE_TOGGLE)),
                     PUSH_NOTIFICATION_FEATURE_TOGGLE, ~on(PUSH_NOTIFICATION_FEATURE_TOGGLE))
     ELSE currentFeatureToggles

\* helpers.js 246-256
disableFeaturesIfNeeded(customNetworkSettings, currentFeatureToggles) ==
  LET featureToggles == currentFeatureToggles
  IN IF isWalletServiceUnavailable(customNetworkSettings)
     THEN withToggle(withToggle(featureToggles, WALLET_SERVICE_FEATURE_TOGGLE, FALSE),
                     PUSH_NOTIFICATION_FEATURE_TOGGLE, FALSE)
     ELSE featureToggles

\* helpers.js 247: the function works on a copy ({ ...currentFeatureToggles }),
\* so the object it was given holds after the call what it held before
currentFeatureTogglesAfter(customNetworkSettings, currentFeatureToggles) ==
  currentFeatureToggles

EmptyToggles == [k \in {} |-> FALSE]

SettingsInit ==
  /\ ns_pc = "init"
  /\ ns_persisted \in PersistedValues
  /\ ns_state \in [networkSettings : SettingsRefs]
  /\ ns_result = Undef
  /\ ft_pc = 0
  /\ ft_settings \in 1..Len(SettingsObjects)
  /\ ft_current \in ToggleSets
  /\ ft_once = EmptyToggles
  /\ ft_twice = EmptyToggles
  /\ ft_input = ft_current

SettingsIdle ==
  /\ ns_pc = "off"
  /\ ns_persisted = Null
  /\ ns_state = [networkSettings |-> Ref(1)]
  /\ ns_result = Undef
  /\ ft_pc = 0
  /\ ft_settings = 1
  /\ ft_current = EmptyToggles
  /\ ft_once = EmptyToggles
  /\ ft_twice = EmptyToggles
  /\ ft_input = EmptyToggles

\* getNetworkSettings(state) is called
SettingsResolve ==
  /\ ns_pc = "init"
  /\ ns_result' = getNetworkSettings(ns_persisted, ns_state)
  /\ ns_pc' = "resolved"
  /\ UNCHANGED <<ns_persisted, ns_state, ft_pc, ft_settings, ft_current, ft_once, ft_twice,
                 ft_input, notSettings>>

\* disableFeaturesIfNeeded is called on the current toggles
SettingsDisable ==
  /\ ns_pc # "off"
  /\ ft_pc = 0
  /\ ft_once' = disableFeaturesIfNeeded(SettingsObjects[ft_settings], ft_current)
  /\ ft_input' = currentFeatureTogglesAfter(SettingsObjects[ft_settings], ft_current)
  /\ ft_pc' = 1
  /\ UNCHANGED <<ns_pc, ns_persisted, ns_state, ns_result, ft_settings, ft_current, ft_twice, notSettings>>

\* disableFeaturesIfNeeded is called on its own result
SettingsDisableAgain ==
  /\ ft_pc = 1
  /\ ft_twice' = disableFeaturesIfNeeded(SettingsObjects[ft_settings], ft_once)
  /\ ft_pc' = 2
  /\ UNCHANGED <<ns_pc, ns_persisted, ns_state, ns_result, ft_settings, ft_current, ft_once,
                 ft_input, notSettings>>

SettingsNext == SettingsResolve \/ SettingsDisable \/ SettingsDisableAgain

(***************************************************************************)
(* waitForFeatureToggleInitialization, checkForFeatureFlag                 *)
(* (helpers.js 34-50).                                                     *)
(*                                                                         *)
(* The initialization routine is outside helpers.js: it sets               *)
(* the readiness, with the toggles fetched, and then emits                 *)
(* FEATURE_TOGGLE_INITIALIZED, once.  A saga runs without interruption     *)
(* from one suspension to the next: select answers at once, so a caller    *)
(* goes from its select to its take, and from its resumption to its        *)
(* return, in one step.                                                    *)
(***************************************************************************)
Callers == {1, 2}

\* types.FEATURE_TOGGLE_INITIALIZED, and the type of any other action
FEATURE_TOGGLE_INITIALIZED == "FEATURE_TOGGLE_INITIALIZED"
OtherActionType == "SET_FEATURE_TOGGLES"

\* The flags asked for: the two toggles and a flag whose name has a dot.
GateFlags ==
  {Key(WALLET_SERVICE_FEATURE_TOGGLE), Key(PUSH_NOTIFICATION_FEATURE_TOGGLE),
   <<"other", "rollout">>}

\* state.featureToggles: booleans under some of the flags
GateToggleSets == UNION {[K -> {Bool(TRUE), Bool(FALSE)}] : K \in SUBSET GateFlags}

\* FEATURE_TOGGLE_DEFAULTS: no default at all, both toggles off, one toggle on
DefaultTables ==
  {EmptyProps,
   (Key(WALLET_SERVICE_FEATURE_TOGGLE) :> Bool(FALSE)) @@
     (Key(PUSH_NOTIFICATION_FEATURE_TOGGLE) :> Bool(FALSE)),
   (Key(WALLET_SERVICE_FEATURE_TOGGLE) :> Bool(FALSE)) @@
     (Key(PUSH_NOTIFICATION_FEATURE_TOGGLE) :> Bool(TRUE))}

\* Mutant: the gate takes the event without looking at the store.
waitForFeatureToggleInitialization_alwaysTake(initialized) == "take"

\* helpers.js 34-42: what the gate does after its select: it takes
\* FEATURE_TOGGLE_INITIALIZED when the store says false, it returns otherwise
waitForFeatureToggleInitialization(initialized) ==
  IF ~initialized THEN "take" ELSE "return"

\* Mutant: take('*').
takeMatches_any(pattern, type) == TRUE

\* take(pattern) for a string pattern: the action's type is the pattern
takeMatches(pattern, type) == type = pattern

\* Mutant: featureToggles[flag] || default.
checkForFeatureFlag_or(toggles, defaults, flag) ==
  LET v == get(toggles, flag)
      d == GetProp(defaults, flag)
  IN IF truthy(v) THEN v ELSE IF truthy(d) THEN d ELSE Bool(FALSE)

\* helpers.js 47-49: get(featureToggles, flag, FEATURE_TOGGLE_DEFAULTS[flag] || false);
\* lodash get gives the default when the value found is undefined
checkForFeatureFlag(toggles, defaults, flag) ==
  LET v == get(toggles, flag)
      d == GetProp(defaults, flag)
  IN IF v = Undef THEN (IF truthy(d) THEN d ELSE Bool(FALSE)) ELSE v

MaxOther == 1

GateInit ==
  /\ state_featureTogglesInitialized = FALSE
  /\ state_featureToggles = EmptyProps
  /\ g_defaults \in DefaultTables
  /\ g_init = "pending"
  /\ g_other = 0
  /\ g_pc = [c \in Callers |-> "idle"]
  /\ g_flag = [c \in Callers |-> Key(WALLET_SERVICE_FEATURE_TOGGLE)]
  /\ g_result = [c \in Callers |-> Undef]
  /\ g_events = 0
  /\ g_sawReady = [c \in Callers |-> FALSE]
  /\ g_startAt = [c \in Callers |-> 0]
  /\ g_wokeAt = [c \in Callers |-> 0]

GateIdle ==
  /\ state_featureTogglesInitialized = FALSE
  /\ state_featureToggles = EmptyProps
  /\ g_defaults = EmptyProps
  /\ g_init = "off"
  /\ g_other = 0
  /\ g_pc = [c \in Callers |-> "off"]
  /\ g_flag = [c \in Callers |-> Key(WALLET_SERVICE_FEATURE_TOGGLE)]
  /\ g_result = [c \in Callers |-> Undef]
  /\ g_events = 0
  /\ g_sawReady = [c \in Callers |-> FALSE]
  /\ g_startAt = [c \in Callers |-> 0]
  /\ g_wokeAt = [c \in Callers |-> 0]

\* helpers.js 44-50: checkForFeatureFlag(flag) is called: the gate selects the
\* readiness; it suspends on the event, or the toggles are read and the
\* function returns
GateCall ==
  \E c \in Callers, flag \in GateFlags :
    /\ g_pc[c] = "idle"
    /\ g_flag' = [g_flag EXCEPT ![c] = flag]
    /\ g_sawReady' = [g_sawReady EXCEPT ![c] = state_featureTogglesInitialized]
    /\ g_startAt' = [g_startAt EXCEPT ![c] = g_events]
    /\ IF waitForFeatureToggleInitialization(state_featureTogglesInitialized) = "take"
       THEN /\ g_pc' = [g_pc EXCEPT ![c] = "waiting"]
            /\ UNCHANGED g_result
       ELSE /\ g_pc' = [g_pc EXCEPT ![c] = "done"]
            /\ g_result' = [g_result EXCEPT ![c] =
                              checkForFeatureFlag(state_featureToggles, g_defaults, flag)]
    /\ UNCHANGED <<state_featureTogglesInitialized, state_featureToggles, g_defaults, g_init,
                   g_other,
                   g_events, g_wokeAt, notGate>>

\* helpers.js 40, 45-49: an action of the given type is put on the channel:
\* every caller whose take matches is resumed, reads the toggles and returns
resumed(type) ==
  {c \in Callers : g_pc[c] = "waiting" /\ takeMatches(FEATURE_TOGGLE_INITIALIZED, type)}

GateDeliver(type, events) ==
  /\ g_pc' = [c \in Callers |-> IF c \in resumed(type) THEN "done" ELSE g_pc[c]]
  /\ g_result' = [c \in Callers |->
       IF c \in resumed(type)
       THEN checkForFeatureFlag(state_featureToggles, g_defaults, g_flag[c])
       ELSE g_result[c]]
  /\ g_wokeAt' = [c \in Callers |-> IF c \in resumed(type) THEN events ELSE g_wokeAt[c]]

\* the initialization routine stores the toggles and the readiness
GateSetReady ==
  /\ g_init = "pending"
  /\ state_featureTogglesInitialized' = TRUE
  /\ state_featureToggles' \in GateToggleSets
  /\ g_init' = "ready"
  /\ UNCHANGED <<g_defaults, g_other, g_pc, g_flag, g_result, g_events, g_sawReady,
                 g_startAt, g_wokeAt, notGate>>

\* the initialization routine emits FEATURE_TOGGLE_INITIALIZED
GateEmitInitialized ==
  /\ g_init = "ready"
  /\ g_init' = "emitted"
  /\ g_events' = g_events + 1
  /\ GateDeliver(FEATURE_TOGGLE_INITIALIZED, g_events + 1)
  /\ UNCHANGED <<state_featureTogglesInitialized, state_featureToggles, g_defaults, g_other, g_flag,
                 g_sawReady, g_startAt, notGate>>

\* some other action is emitted
GateEmitOther ==
  /\ g_init # "off"
  /\ g_other < MaxOther
  /\ g_other' = g_other + 1
  /\ GateDeliver(OtherActionType, g_events)
  /\ UNCHANGED <<state_featureTogglesInitialized, state_featureToggles, g_defaults, g_init, g_flag,
                 g_events, g_sawReady, g_startAt, notGate>>

GateNext == GateCall \/ GateSetReady \/ GateEmitInitialized \/ GateEmitOther

(***************************************************************************)
(* getFullnodeNetwork, getWalletServiceNetwork (helpers.js 199-227).       *)
(*                                                                         *)
(* The version endpoint does not answer (the request is rejected or times  *)
(* out) or answers with a status and a body.                               *)
(***************************************************************************)
\* The objects a body can be or hold: 1 is {}, 2 and 3 carry a network,
\* 4 to 6 carry a data property: {}, an object with a network, null.
ProbeObjects ==
  <<EmptyProps,
    (Key("network") :> Str("mainnet")),
    (Key("network") :> Str("testnet")),
    (Key("data") :> Ref(1)),
    (Key("data") :> Ref(2)),
    (Key("data") :> Null)>>

ProbeBodies == {Undef, Null, Str("<html>")} \cup {Ref(r) : r \in 1..Len(ProbeObjects)}

ProbeAnswers ==
  [kind : {"reject", "timeout"}, status : {0}, body : {Undef}]
    \cup [kind : {"respond"}, status : {200, 404, 500}, body : ProbeBodies]

Probes == {"getFullnodeNetwork", "getWalletServiceNetwork"}

\* value.name in JavaScript: a TypeError on undefined and null, the property
\* of an object, undefined on any other value
readProp(v, name) ==
  IF v.tag \in {"undefined", "null"} THEN [threw |-> TRUE, value |-> Undef]
  ELSE IF v.tag = "object"
  THEN [threw |-> FALSE, value |-> GetProp(ProbeObjects[v.n], Key(name))]
  ELSE [threw |-> FALSE, value |-> Undef]

Returned(v) == [raised |-> 0, error |-> "", value |-> v]
Raised(message) == [raised |-> 1, error |-> message, value |-> Undef]
NoOutcome == [raised |-> 0, error |-> "", value |-> Undef]

\* helpers.js 201-205: hathorLib.versionApi.getVersion(resolve).catch(reject):
\* the promise resolves with the body of an answer the library accepts and
\* rejects otherwise
getVersion(answer) ==
  IF answer.kind = "respond" /\ answer.status = 200
  THEN [rejected |-> FALSE, response |-> answer.body]
  ELSE [rejected |-> TRUE, response |-> Undef]

\* helpers.js 199-210
getFullnodeNetwork(answer) ==
  LET r == getVersion(answer)
      network == readProp(r.response, "network")
  IN IF r.rejected \/ network.threw
     THEN Raised("Error getting fullnode version data.")
     ELSE Returned(network.value)

\* helpers.js 218-220: validateStatus(status) { return status === 200; }
validateStatus(status) == status = 200

\* helpers.js 212-227: instance.get rejects when there is no answer or the
\* status is not valid; response.data is the body
getWalletServiceNetwork(answer) ==
  LET rejected == answer.kind # "respond" \/ ~validateStatus(answer.status)
      data == readProp(answer.body, "data")
      network == readProp(data.value, "network")
  IN IF rejected \/ data.threw \/ network.threw
     THEN Raised("Error getting wallet-service version data.")
     ELSE Returned(network.value)

ProbeInit ==
  /\ pb_probe \in Probes
  /\ pb_pc = "idle"
  /\ pb_answer \in ProbeAnswers
  /\ pb_outcome = NoOutcome

ProbeIdle ==
  /\ pb_probe = "getFullnodeNetwork"
  /\ pb_pc = "off"
  /\ pb_answer = [kind |-> "reject", status |-> 0, body |-> Undef]
  /\ pb_outcome = NoOutcome

\* the probe is called and sends its request
ProbeCall ==
  /\ pb_pc = "idle"
  /\ pb_pc' = "awaiting"
  /\ UNCHANGED <<pb_probe, pb_answer, pb_outcome, notProbe>>

\* the request is settled: the probe returns or raises
ProbeSettle ==
  /\ pb_pc = "awaiting"
  /\ pb_outcome' = IF pb_probe = "getFullnodeNetwork" THEN getFullnodeNetwork(pb_answer)
                   ELSE getWalletServiceNetwork(pb_answer)
  /\ pb_pc' = "settled"
  /\ UNCHANGED <<pb_probe, pb_answer, notProbe>>

ProbeNext == ProbeCall \/ ProbeSettle

\* the network identifier an answer carries where the probe looks for it,
\* undefined when it carries none
networkOf(probe, body) ==
  LET field(v, name) == IF v.tag = "object" THEN GetProp(ProbeObjects[v.n], Key(name))
                        ELSE Undef
  IN IF probe = "getFullnodeNetwork" THEN field(body, "network")
     ELSE field(field(body, "data"), "network")

(***************************************************************************)
(* Specifications                                                          *)
(***************************************************************************)
InitMatcher ==
  MatcherInit /\ RaceIdle /\ BoundaryIdle /\ ModalIdle /\ TokensIdle /\ SettingsIdle
  /\ GateIdle /\ ProbeIdle
SpecMatcher == InitMatcher /\ [][MatcherNext]_vars

InitRace ==
  RaceIdle /\ MatcherIdle /\ BoundaryIdle /\ ModalIdle /\ TokensIdle /\ SettingsIdle
  /\ GateIdle /\ ProbeIdle
SpecRace == InitRace /\ [][RaceNext]_vars

InitBoundary ==
  BoundaryInit /\ MatcherIdle /\ RaceIdle /\ ModalIdle /\ TokensIdle /\ SettingsIdle
  /\ GateIdle /\ ProbeIdle
SpecBoundary == InitBoundary /\ [][BoundaryNext]_vars

\* the runtime carries out every put it was handed and resumes the handler
SpecBoundaryFair ==
  InitBoundary /\ [][BoundaryNext]_vars
    /\ WF_vars(BoundaryPutFailure) /\ WF_vars(BoundaryEnd)

InitModal ==
  ModalIdle /\ MatcherIdle /\ RaceIdle /\ BoundaryIdle /\ TokensIdle /\ SettingsIdle
  /\ GateIdle /\ ProbeIdle
SpecModal == InitModal /\ [][ModalNext]_vars

InitTokens ==
  TokensInit /\ MatcherIdle /\ RaceIdle /\ BoundaryIdle /\ ModalIdle /\ SettingsIdle
  /\ GateIdle /\ ProbeIdle
SpecTokens == InitTokens /\ [][TokensNext]_vars

\* every request to the iterator is answered
SpecTokensFair ==
  InitTokens /\ [][TokensNext]_vars /\ WF_vars(TokensYield) /\ WF_vars(TokensDone)

InitSettings ==
  SettingsInit /\ MatcherIdle /\ RaceIdle /\ BoundaryIdle /\ ModalIdle /\ TokensIdle
  /\ GateIdle /\ ProbeIdle
SpecSettings == InitSettings /\ [][SettingsNext]_vars

InitGate ==
  GateInit /\ MatcherIdle /\ RaceIdle /\ BoundaryIdle /\ ModalIdle /\ TokensIdle
  /\ SettingsIdle /\ ProbeIdle
SpecGate == InitGate /\ [][GateNext]_vars

\* the initialization routine runs to its end
SpecGateFair ==
  InitGate /\ [][GateNext]_vars /\ WF_vars(GateSetReady) /\ WF_vars(GateEmitInitialized)

InitProbe ==
  ProbeInit /\ MatcherIdle /\ RaceIdle /\ BoundaryIdle /\ ModalIdle /\ TokensIdle
  /\ SettingsIdle /\ GateIdle
SpecProbe == InitProbe /\ [][ProbeNext]_vars

(***************************************************************************)
(* Claims                                                                  *)
(***************************************************************************)
\* C1: an invocation of dispatchAndWait resolves at most once: its caller is
\* resumed once at most, it is resolved exactly when it was resumed once, and
\* once it is resolved none of its takers is left on the channel, so that no
\* later action, of the same tick or of a later one, resumes it again.
C1_ResolvesAtMostOnce ==
  \A i \in Inv :
    /\ r_resumed[i] <= 1
    /\ r_pc[i] = "resolved" <=> r_resumed[i] = 1
    /\ r_pc[i] = "resolved" => \A k \in 1..Len(r_takers) : r_takers[k].inv # i

\* C1 witness: the failure action and, after it in the same tick, the success
\* action were emitted, and the invocation resolved once, on the failure.
C1_Witness ==
  \E i \in Inv :
    /\ r_pc[i] = "resolved"
    /\ r_first[i].failure /\ ~r_first[i].success
    /\ r_tickBranches[i] = {"success", "failure"}
    /\ DOMAIN r_result[i] = {"falure"}
    /\ r_resumed[i] = 1

\* C2: the value dispatchAndWait returns has exactly one variant: "success"
\* with the matched action when the success action came first, "failure" with
\* the matched action when the failure action came first.
C2_ExactlyOneVariant ==
  \A i \in Inv :
    r_pc[i] = "resolved" =>
      /\ r_first[i].success =>
           DOMAIN r_result[i] = {"success"} /\ r_result[i]["success"] = r_first[i].ev
      /\ (r_first[i].failure /\ ~r_first[i].success) =>
           DOMAIN r_result[i] = {"failure"} /\ r_result[i]["failure"] = r_first[i].ev

\* the failure actions in the actions put
RECURSIVE countAction(_, _)
countAction(out, a) ==
  IF out = <<>> THEN 0
  ELSE (IF Head(out) = a THEN 1 ELSE 0) + countAction(Tail(out), a)

\* C3: when the supervised saga raises a fault, from its own code or from a
\* nested suspension, the handler puts the failure action exactly once and
\* ends normally; the fault never leaves the handler.  The handler logs its
\* diagnostic, is suspended until the runtime has carried out the put of the
\* failure action, and then ends: the failure action is not put before the
\* diagnostic, it is put once from then on, the handler always reaches its
\* end, and nothing is put after it.
C3_FaultCaughtOnce ==
  /\ [](/\ eb_pc # "escaped"
        /\ eb_fault # "none" =>
             /\ eb_pc \in {"catching", "resuming", "done"}
             /\ Len(eb_log) = 1
             /\ eb_puts = (IF eb_pc = "catching" THEN 0 ELSE 1)
             /\ countAction(eb_out, eb_failureAction) = eb_puts)
  /\ (eb_fault # "none") ~> (eb_pc = "done" /\ eb_puts = 1)
  /\ [][eb_pc = "done" => (eb_pc' = "done" /\ eb_puts' = eb_puts /\ eb_out' = eb_out)]_vars

\* C3 witness: a saga that had put an action of its own was resumed with a
\* fault, and the handler ended after one failure action.
C3_Witness ==
  /\ eb_fault = "nested"
  /\ eb_pc = "done"
  /\ eb_puts = 1
  /\ Len(eb_out) = 2

\* C4: a call of the handler puts the failure action at most once, and not at
\* all when the supervised saga returns.
C4_AtMostOneCompensation ==
  /\ eb_puts <= 1
  /\ countAction(eb_out, eb_failureAction) <= 1
  /\ (eb_pc = "done" /\ eb_fault = "none") =>
       eb_puts = 0 /\ countAction(eb_out, eb_failureAction) = 0

\* C4 witness: a saga with a put and a suspension returned.
C4_Witness ==
  /\ eb_pc = "done"
  /\ eb_fault = "none"
  /\ eb_routine.steps = <<"put", "suspend">>
  /\ eb_out = <<RoutineAction>>
  /\ eb_puts = 0

\* C5 as stated: a session sets the flag to false exactly once, before its
\* promise resolves, however often its callback is called.
C5_FalseExactlyOnce ==
  \A s \in Sessions :
    /\ countOps(m_log, s, "false") <= 1
    /\ m_pc[s] = "resolved" => countOps(beforeResolve(m_log, s), s, "false") = 1

\* C5 amended: a session sets the flag to false once per call of its callback:
\* not before the first call, exactly once before its promise resolves, and
\* once more at every further call.
C5_FalseOncePerCallback ==
  \A s \in Sessions :
    /\ countOps(m_log, s, "false") = m_cbCalls[s]
    /\ m_pc[s] = "pending" <=> (m_cbCalls[s] = 0 /\ m_pc[s] # "idle")
    /\ m_pc[s] = "resolved" => countOps(beforeResolve(m_log, s), s, "false") = 1

\* C5 witness: the callback of a resolved session was called a second time.
C5_Witness ==
  \E s \in Sessions :
    /\ m_pc[s] = "resolved"
    /\ m_cbCalls[s] = 2
    /\ countOps(m_log, s, "false") = 2

\* C6: with excludeHTR the list returned holds no record with the native uid,
\* and it is the records of the registry without the native ones, in order.
C6_ExcludesNative ==
  (tk_pc = "done" /\ tk_excludeHTR) =>
    /\ \A i \in 1..Len(tk_ret) : tk_ret[i].uid # htrUid
    /\ tk_ret = project(SelectSeq(tk_registry, isNotNative))

\* C6 witness: a registry with the native uid twice, and a custom token that
\* carries the native symbol, was listed without the native token.
C6_Witness ==
  /\ tk_pc = "done"
  /\ tk_excludeHTR
  /\ Len(tk_registry) = 3
  /\ Cardinality({i \in 1..3 : tk_registry[i].uid = htrUid}) = 2
  /\ \E i \in 1..3 : tk_registry[i].uid # htrUid /\ tk_registry[i].symbol = "HTR"
  /\ Len(tk_ret) = 1

\* C7: without excludeHTR the list returned is the default tokens in their
\* declared order, then every record of the registry in its order, none
\* dropped and none merged.
C7_DefaultsThenRegistry ==
  (tk_pc = "done" /\ ~tk_excludeHTR) =>
    /\ Len(tk_ret) = Len(INITIAL_TOKENS) + Len(tk_registry)
    /\ \A i \in 1..Len(INITIAL_TOKENS) : tk_ret[i] = INITIAL_TOKENS[i]
    /\ \A i \in 1..Len(tk_registry) :
         tk_ret[Len(INITIAL_TOKENS) + i] =
           TokenRecord(tk_registry[i].uid, tk_registry[i].symbol, tk_registry[i].name)

\* C7 witness: the native token is registered, twice, and is also a default:
\* it is listed three times.
C7_Witness ==
  /\ tk_pc = "done"
  /\ ~tk_excludeHTR
  /\ Len(tk_registry) = 3
  /\ Cardinality({i \in 1..Len(tk_ret) : tk_ret[i] = INITIAL_TOKENS[1]}) = 3

\* C8: the predicate is true iff the action's type is one of the types and
\* every key of the payload resolves on the action to the expected value (an
\* absent path being undefined); and changing a property of the action that
\* the payload does not name leaves the result as it was.
C8_MatcherIff ==
  /\ mt_pc # "built" =>
       (mt_result <=>
          /\ \E i \in 1..Len(mt_types.items) : mt_types.items[i] = get(mt_action, Key("type"))
          /\ \A key \in DOMAIN mt_payload : get(mt_action, key) = mt_payload[key])
  /\ mt_pc = "changed" => mt_result = mt_before

\* C8 witness: a predicate of two types and a dotted key accepted an action
\* through the nested path, and the tokenId of the action, which the payload
\* does not name, was then changed.
C8_Witness ==
  /\ mt_pc = "changed"
  /\ mt_result
  /\ mt_payload = (<<"payload", "id">> :> Num(1))
  /\ <<"payload", "id">> \notin DOMAIN mt_action
  /\ mt_types.isArray /\ Len(mt_types.items) = 2

\* C9: getNetworkSettings returns the stored item whenever it is neither null
\* nor undefined, a falsy item included, and the networkSettings of the state
\* only when the stored item is null or undefined.
C9_PersistedWins ==
  ns_pc = "resolved" =>
    ns_result = IF ns_persisted \in {Null, Undef} THEN ns_state.networkSettings
                ELSE ns_persisted

\* C9 witness: the stored item false was returned.
C9_Witness ==
  /\ ns_pc = "resolved"
  /\ ns_persisted = Bool(FALSE)
  /\ ns_result = Bool(FALSE)

\* C10: disableFeaturesIfNeeded applied to its own result, with the same
\* settings, gives that result again.
C10_Idempotent == ft_pc = 2 => ft_twice = ft_once

\* C10 witness: the wallet service is unavailable, the first call switched a
\* toggle off, and the second call was made.
C10_Witness ==
  /\ ft_pc = 2
  /\ isWalletServiceUnavailable(SettingsObjects[ft_settings])
  /\ WALLET_SERVICE_FEATURE_TOGGLE \in DOMAIN ft_current
  /\ ft_current[WALLET_SERVICE_FEATURE_TOGGLE]
  /\ ft_once # ft_current

\* C11: when the settings have no wallet-service url (null or absent), the
\* result of disableFeaturesIfNeeded maps the wallet-service and the
\* push-notification toggles to false, whether or not the input had them, and
\* holds every other entry of the input unchanged; when they have one, the
\* result is the input entry for entry; the input object is not modified.
C11_DisablesBothKeepsRest ==
  ft_pc >= 1 =>
    /\ IF get(SettingsObjects[ft_settings], Key("walletServiceUrl")) \in {Null, Undef}
       THEN /\ DOMAIN ft_once = DOMAIN ft_current \cup
                 {WALLET_SERVICE_FEATURE_TOGGLE, PUSH_NOTIFICATION_FEATURE_TOGGLE}
            /\ ft_once[WALLET_SERVICE_FEATURE_TOGGLE] = FALSE
            /\ ft_once[PUSH_NOTIFICATION_FEATURE_TOGGLE] = FALSE
            /\ \A k \in DOMAIN ft_current \ {WALLET_SERVICE_FEATURE_TOGGLE,
                                             PUSH_NOTIFICATION_FEATURE_TOGGLE} :
                 ft_once[k] = ft_current[k]
       ELSE ft_once = ft_current
    /\ ft_input = ft_current

\* C11 witness: the settings have no walletServiceUrl at all, the input had
\* the push-notification toggle on, lacked the wallet-service toggle and had
\* another toggle on; the call was made.
C11_Witness ==
  /\ ft_pc = 1
  /\ ft_settings = 1
  /\ ft_current = [k \in {PUSH_NOTIFICATION_FEATURE_TOGGLE, "other"} |-> TRUE]
  /\ ft_once = (WALLET_SERVICE_FEATURE_TOGGLE :> FALSE) @@
               (PUSH_NOTIFICATION_FEATURE_TOGGLE :> FALSE) @@ ("other" :> TRUE)

\* C12: checkForFeatureFlag(flag) returns the value the flag has in the
\* toggles of the store, read after the wait for readiness, whenever the flag
\* is present there, a false value under a true default included; otherwise
\* the static default of the flag; otherwise false.
C12_PresentElseDefaultElseFalse ==
  \A c \in Callers :
    g_pc[c] = "done" =>
      g_result[c] =
        IF g_flag[c] \in DOMAIN state_featureToggles THEN state_featureToggles[g_flag[c]]
        ELSE IF g_flag[c] \in DOMAIN g_defaults THEN g_defaults[g_flag[c]]
        ELSE Bool(FALSE)

\* C12 witness: a caller that had waited for the event got false for a flag
\* that is false in the store and true in the defaults.
C12_Witness ==
  \E c \in Callers :
    /\ g_pc[c] = "done"
    /\ g_wokeAt[c] = 1
    /\ g_flag[c] = Key(PUSH_NOTIFICATION_FEATURE_TOGGLE)
    /\ g_flag[c] \in DOMAIN state_featureToggles
    /\ state_featureToggles[g_flag[c]] = Bool(FALSE)
    /\ GetProp(g_defaults, g_flag[c]) = Bool(TRUE)
    /\ g_result[c] = Bool(FALSE)

\* C14: checkForFeatureFlag reads the toggles and returns only after
\* readiness: a caller that has returned either selected a true readiness at
\* its start and was never suspended, or selected a false one and was resumed
\* by a FEATURE_TOGGLE_INITIALIZED event emitted after it had started to
\* wait; the readiness is true by then.  A caller that selected a false
\* readiness and has seen no such event has no result.
C14_ReadsOnlyWhenReady ==
  \A c \in Callers :
    /\ g_pc[c] = "done" =>
         /\ state_featureTogglesInitialized
         /\ \/ g_sawReady[c] /\ g_wokeAt[c] = 0
            \/ ~g_sawReady[c] /\ g_wokeAt[c] > g_startAt[c] /\ g_wokeAt[c] <= g_events
    /\ g_pc[c] = "waiting" => g_result[c] = Undef /\ ~g_sawReady[c]

\* C14 witness: one caller was suspended, another action was emitted, and the
\* caller returned on the event; the other caller started when the store was
\* ready and returned at once.
C14_Witness ==
  \E c, d \in Callers :
    /\ g_pc[c] = "done" /\ ~g_sawReady[c] /\ g_wokeAt[c] = 1
    /\ g_other = 1
    /\ g_pc[d] = "done" /\ g_sawReady[d] /\ g_wokeAt[d] = 0

\* C15: no wake-up is lost: when the initialization routine sets the
\* readiness and emits FEATURE_TOGGLE_INITIALIZED once, every call of the
\* gate returns in the end, whether it started before the readiness was set,
\* between that and the event, or after the event; and a caller that is
\* suspended stays suspended over every step that does not emit the event.
C15_NoLostWakeup ==
  /\ \A c \in Callers : (g_pc[c] \in {"waiting", "done"}) ~> (g_pc[c] = "done")
  /\ [][\A c \in Callers :
          (g_pc[c] = "waiting" /\ g_events' = g_events) => g_pc'[c] = "waiting"]_vars

\* C15 witness: a caller that started before the readiness was set and a
\* caller that started after the event have both returned.
C15_Witness ==
  \E c, d \in Callers :
    /\ g_pc[c] = "done" /\ ~g_sawReady[c] /\ g_startAt[c] = 0 /\ g_wokeAt[c] = 1
    /\ g_pc[d] = "done" /\ g_startAt[d] = 1

\* C13 as stated: showPinScreenForResult sets the flag to true before it
\* presents the pin screen, so that in every execution, one where the pin
\* screen calls the callback during the presentation included, the write of
\* true comes before the write of false by the callback, and the flag the
\* session leaves behind once its promise has resolved is false.
C13_TrueBeforePresent ==
  \A s \in Sessions :
    /\ m_pc[s] # "idle" =>
         /\ firstOp(m_log, s, "true", 1) > 0
         /\ firstOp(m_log, s, "true", 1) < firstOp(m_log, s, "present", 1)
    /\ firstOp(m_log, s, "false", 1) > 0 =>
         /\ firstOp(m_log, s, "true", 1) > 0
         /\ firstOp(m_log, s, "true", 1) < firstOp(m_log, s, "false", 1)
    /\ m_pc[s] = "resolved" =>
         m_log[lastWrite(m_log, s, Len(m_log))] = Entry(s, "false")

\* C20 as stated: the flag is true whenever a session is pending, two
\* overlapping sessions of which one has completed included.
C20_TrueWhilePending ==
  (\E s \in Sessions : m_pc[s] = "pending") => isShowingPinScreen

\* C16: an invocation of dispatchAndWait goes from idle to dispatched to
\* resolved and never back.  It puts its command exactly once, before it
\* waits, and never again.  It resolves with the first success or failure
\* action emitted after the command, and it is resolved as soon as there is
\* one; an outcome action emitted before the command does not resolve it.
C16_DispatchOnceThenFirstOutcome ==
  /\ [](\A i \in Inv :
          /\ r_puts[i] = (IF r_pc[i] = "idle" THEN 0 ELSE 1)
          /\ r_pc[i] = "idle" => (r_resumed[i] = 0 /\ r_result[i] = NoResult)
          /\ r_pc[i] = "waiting" => (~r_first[i].seen /\ r_result[i] = NoResult)
          /\ r_pc[i] = "resolved" =>
               /\ r_first[i].seen
               /\ DOMAIN r_result[i] # {}
               /\ \A k \in DOMAIN r_result[i] : r_result[i][k] = r_first[i].ev)
  /\ [][\A i \in Inv :
          \/ r_pc'[i] = r_pc[i]
          \/ r_pc[i] = "idle" /\ r_pc'[i] = "waiting" /\ r_puts'[i] = 1
          \/ r_pc[i] = "waiting" /\ r_pc'[i] = "resolved"]_vars

\* C16 witness: an action that the success pattern of an invocation accepts
\* was emitted before the invocation put its command: the invocation is
\* still waiting; the other invocation resolved with a later action.
C16_Witness ==
  \E i, j \in Inv :
    /\ r_pc[i] = "waiting"
    /\ r_puts[i] = 1
    /\ \E e \in r_emitted : patternMatches(r_args[i].successAction, e)
    /\ r_pc[j] = "resolved"
    /\ r_ticks = 2

\* C17: getRegisteredTokens drains the iterator one record at a time: it asks
\* for the next record only when the previous request was answered, so at most
\* one request is open; it asks for nothing after the iterator said done; and
\* it returns exactly when the sequence is finite: a finite one is drained to
\* its end and the list returned, an endless one never lets it return.
C17_SequentialDrain ==
  /\ [](/\ tk_pending <= 1
        /\ tk_pc = "awaiting" => (tk_pending = 1 /\ tk_requests = tk_idx + 1)
        /\ tk_pc \in {"done", "answered"} =>
             /\ ~tk_endless
             /\ tk_pending = 0
             /\ tk_idx = Len(tk_registry)
             /\ tk_requests = Len(tk_registry) + 1)
  /\ (tk_pc = "awaiting" /\ ~tk_endless) ~> (tk_pc \in {"done", "answered"})

\* C17 witness: a registry of three records was drained with four requests
\* and the list returned.
C17_Witness ==
  /\ tk_pc = "done"
  /\ Len(tk_registry) = 3
  /\ tk_requests = 4
  /\ tk_pending = 0
  /\ tk_caller = "getRegisteredTokens"

\* C18: isTokenRegistered(wallet, uid) is true exactly when uid is the uid of
\* a default token or of a record of the registry; it is true for the uid of
\* a default token when the registry is empty.
C18_RegisteredIff ==
  tk_pc = "answered" =>
    (tk_found <=>
       \/ \E k \in 1..Len(INITIAL_TOKENS) : INITIAL_TOKENS[k].uid = tk_uid
       \/ \E k \in 1..Len(tk_registry) : tk_registry[k].uid = tk_uid)

\* C18 witness: with an empty registry the native uid is found.
C18_Witness ==
  /\ tk_pc = "answered"
  /\ tk_registry = <<>>
  /\ tk_uid = htrUid
  /\ tk_found

\* C19 as stated: each probe raises exactly one generic fault whenever the
\* version endpoint is at fault: no answer, a status other than 200, or an
\* answer without a network identifier; and it returns a network identifier
\* only when the endpoint answered 200 with one.
C19_FaultsRaiseOnce ==
  pb_pc = "settled" =>
    LET network == networkOf(pb_probe, pb_answer.body)
        good == /\ pb_answer.kind = "respond"
                /\ pb_answer.status = 200
                /\ network.tag = "string"
    IN IF good
       THEN pb_outcome = Returned(network)
       ELSE /\ pb_outcome.raised = 1
            /\ pb_outcome.error \in {"Error getting fullnode version data.",
                                     "Error getting wallet-service version data."}
            /\ pb_outcome.value = Undef

\* an action that one of the two patterns of a caller accepts
acceptsOutcome(args, e) ==
  patternMatches(args.successAction, e) \/ patternMatches(args.failureAction, e)

\* two invocations wait with the same patterns
samePatterns(i, j) ==
  /\ r_args[i].successAction = r_args[j].successAction
  /\ r_args[i].failureAction = r_args[j].failureAction

\* no action is accepted by the patterns of both invocations
disjointPatterns(i, j) ==
  \A e \in RaceEvents : ~(acceptsOutcome(r_args[i], e) /\ acceptsOutcome(r_args[j], e))

\* C21: two concurrent invocations of dispatchAndWait are kept apart by their
\* patterns and by nothing else.  When both wait with the same success and
\* failure patterns, the action that resolves one resolves the other in the
\* same step and with the same action, whichever command it was emitted for.
\* When no action is accepted by the patterns of both, an invocation is only
\* ever resolved by an action its own patterns accept, so the two never
\* resolve with the same action, and an invocation that has seen no action
\* of its own stays suspended while the other resolves.
C21_IsolatedByMatchers ==
  /\ [](\A j \in Inv :
          r_pc[j] = "resolved" =>
            \A k \in DOMAIN r_result[j] : acceptsOutcome(r_args[j], r_result[j][k]))
  /\ [][\A i, j \in Inv :
          (i # j /\ r_pc[i] = "waiting" /\ r_pc[j] = "waiting") =>
            /\ samePatterns(i, j) => (r_pc'[i] = r_pc'[j] /\ r_result'[i] = r_result'[j])
            /\ disjointPatterns(i, j) =>
                 /\ (r_pc'[i] = "resolved" /\ r_pc'[j] = "resolved") =>
                      \A k \in DOMAIN r_result'[i], m \in DOMAIN r_result'[j] :
                        r_result'[i][k] # r_result'[j][m]
                 /\ (r_pc'[i] = "resolved" /\ ~r_first'[j].seen) =>
                      (r_pc'[j] = "waiting" /\ r_result'[j] = NoResult)]_vars

\* C21 witness: two invocations with different commands and the same
\* patterns were resolved by one action, the only one emitted.
C21_Witness ==
  \E i, j \in Inv :
    /\ i # j
    /\ r_args[i].action # r_args[j].action
    /\ r_args[i].successAction = r_args[j].successAction
    /\ r_args[i].failureAction = r_args[j].failureAction
    /\ r_pc[i] = "resolved" /\ r_pc[j] = "resolved"
    /\ r_result[i] = r_result[j]
    /\ Cardinality(r_emitted) = 1
    /\ r_ticks = 1

====
